---- MODULE Spec2Model ----
(***************************************************************************)
(* YansErrorRateModel (ns-3 wifi): the chunk success rate of a coded OFDM  *)
(* transmission.  DoGetChunkSuccessRate picks a PHY rate, dispatches on    *)
(* the constellation size and code rate of the mode, and calls             *)
(* GetFecBpskBer or GetFecQamBer, which turn a raw bit error rate into a   *)
(* success probability through CalculatePd and Binomial.                   *)
(*                                                                         *)
(* Numbers.  A C++ double is modelled by an exact signed rational          *)
(* whose denominator is 2^e2 * 3^e3 * 5^e5 (every division of the code     *)
(* after erfc is by a power of two or by log2(m) <= 12), or by NaN.  The   *)
(* numerator is a natural number of any size, kept as a little-endian      *)
(* sequence of limbs, because TLC's integers are 32 bits wide.  The        *)
(* argument of sqrt/erfc is a signed ratio of two such naturals.  erfc of  *)
(* a square root is a decreasing step function (ErfcSqrt).  A uint32_t is  *)
(* a natural number reduced modulo 2^32 after every operation.             *)
(***************************************************************************)
EXTENDS Integers, Sequences, FiniteSets, TLC

(***************************************************************************)
(* Natural numbers of any size: little-endian limbs, no leading zero limb, *)
(* zero is the empty sequence.                                             *)
(***************************************************************************)
Radix == 2^15

\* limb i of a, 0 beyond its length
Limb(a, i) == IF i <= Len(a) THEN a[i] ELSE 0

Max(a, b) == IF a >= b THEN a ELSE b

RECURSIVE BFromNat(_)
BFromNat(n) == IF n = 0 THEN <<>> ELSE <<n % Radix>> \o BFromNat(n \div Radix)

\* a without its leading zero limbs
BTrim(a) ==
    SubSeq(a, 1, CHOOSE n \in 0..Len(a) :
                     (n = 0 \/ a[n] # 0) /\ \A j \in (n + 1)..Len(a) : a[j] = 0)

\* The limbs lo..hi of a * k + b * s + c, where c is the carry (or borrow)
\* into limb lo, and the carry out of limb hi.  The range is halved, so the
\* depth of the evaluation is logarithmic in the number of limbs.
RECURSIVE BLinear(_, _, _, _, _, _, _)
BLinear(a, k, b, s, lo, hi, c) ==
    IF lo > hi THEN [limbs |-> <<>>, carry |-> c]
    ELSE IF lo = hi
    THEN [limbs |-> <<(Limb(a, lo) * k + Limb(b, lo) * s + c) % Radix>>,
          carry |-> (Limb(a, lo) * k + Limb(b, lo) * s + c) \div Radix]
    ELSE LET Join(low, high) == [limbs |-> low.limbs \o high.limbs,
                                 carry |-> high.carry]
             Upper(low) == Join(low, BLinear(a, k, b, s, ((lo + hi) \div 2) + 1,
                                             hi, low.carry))
         IN  Upper(BLinear(a, k, b, s, lo, (lo + hi) \div 2, c))

\* the number whose limbs are those of chain followed by its carry
BCarryOut(chain) == BTrim(chain.limbs \o <<chain.carry>>)

BAdd(a, b) == BCarryOut(BLinear(a, 1, b, 1, 1, Max(Len(a), Len(b)), 0))

\* a - b, for a >= b
BSub(a, b) == BTrim(BLinear(a, 1, b, -1, 1, Len(a), 0).limbs)

\* a * k, for 0 <= k < Radix
BMulSmall(a, k) == BCarryOut(BLinear(a, k, <<>>, 0, 1, Len(a), 0))

\* a * Radix^n
BShift(a, n) == IF a = <<>> THEN a ELSE [i \in 1..n |-> 0] \o a

\* (the limbs lo..hi of a) * b
RECURSIVE BMulRange(_, _, _, _)
BMulRange(a, b, lo, hi) ==
    IF lo > hi THEN <<>>
    ELSE IF lo = hi THEN BMulSmall(b, a[lo])
    ELSE BAdd(BMulRange(a, b, lo, (lo + hi) \div 2),
              BShift(BMulRange(a, b, ((lo + hi) \div 2) + 1, hi),
                     ((lo + hi) \div 2) + 1 - lo))

BMul(a, b) == BMulRange(a, b, 1, Len(a))

\* a * k^n, for 0 < k < Radix
RECURSIVE BMulPow(_, _, _)
BMulPow(a, k, n) == IF n = 0 THEN a ELSE BMulSmall(BMulPow(a, k, n - 1), k)

\* a * 2^n
BMulPow2(a, n) == BShift(BMulSmall(a, 2^(n % 15)), n \div 15)

\* a <= b: by length, then by the highest limb in which they differ
BLe(a, b) ==
    IF Len(a) # Len(b) THEN Len(a) < Len(b)
    ELSE \A i \in 1..Len(a) :
            (\A j \in (i + 1)..Len(a) : a[j] = b[j]) => a[i] <= b[i]

\* the largest g in 0..31 with b * g <= r, for b # 0 and r < 32 * b
BDivDigit(r, b) ==
    CHOOSE g \in 0..31 : BLe(BMulSmall(b, g), r) /\ ~BLe(BMulSmall(b, g + 1), r)

\* One step of long division by b: prev is the quotient and the remainder
\* of the bits of the dividend above the five bits in chunk.
BDivStep(prev, b, chunk) ==
    LET Step(r, g) == [q |-> BAdd(BMulSmall(prev.q, 32), BFromNat(g)),
                       r |-> BSub(r, BMulSmall(b, g))]
        Digit(r)   == Step(r, BDivDigit(r, b))
    IN  Digit(BAdd(BMulSmall(prev.r, 32), BFromNat(chunk)))

\* Long division of a by b, five bits at a time from bit 5 * i down; prev
\* is the quotient and remainder of the bits above.  (The one-element set
\* binds the value of the step before the next step is taken.)
RECURSIVE BDivFrom(_, _, _, _)
BDivFrom(a, b, i, prev) ==
    IF i < 0 THEN prev
    ELSE CHOOSE result \in
            {BDivFrom(a, b, i - 1, next) :
                next \in {BDivStep(prev, b, (a[(i \div 3) + 1] \div 32^(i % 3)) % 32)}} :
            TRUE

\* a \div b, for b # 0
BDiv(a, b) ==
    IF BLe(b, a) THEN BDivFrom(a, b, 3 * Len(a) - 1, [q |-> <<>>, r |-> <<>>]).q
    ELSE <<>>

\* a % b, for b # 0
BRem(a, b) ==
    IF BLe(b, a) THEN BDivFrom(a, b, 3 * Len(a) - 1, [q |-> <<>>, r |-> <<>>]).r
    ELSE a

(***************************************************************************)
(* uint32_t: a natural number below 2^32; every product is reduced modulo  *)
(* 2^32 (two limbs and the two low bits of the third).                     *)
(***************************************************************************)
\* The factorials kept in a uint16_t: reduced modulo 2^16.
U16(a) == BTrim(<<Limb(a, 1), Limb(a, 2) % 2>>)

U32(a) == BTrim(<<Limb(a, 1), Limb(a, 2), Limb(a, 3) % 4>>)

U32Mul(a, b) == U32(BMul(a, b))

(***************************************************************************)
(* double: a signed rational num / (2^e2 * 3^e3 * 5^e5), or NaN.  Zero has *)
(* neg = FALSE.                                                            *)
(***************************************************************************)
DNaN  == [nan |-> TRUE,  neg |-> FALSE, num |-> <<>>,  e2 |-> 0, e3 |-> 0, e5 |-> 0]
DZero == [nan |-> FALSE, neg |-> FALSE, num |-> <<>>,  e2 |-> 0, e3 |-> 0, e5 |-> 0]
DOne  == [nan |-> FALSE, neg |-> FALSE, num |-> <<1>>, e2 |-> 0, e3 |-> 0, e5 |-> 0]
DHalf == [nan |-> FALSE, neg |-> FALSE, num |-> <<1>>, e2 |-> 1, e3 |-> 0, e5 |-> 0]

\* (-1)^neg * n / (2^e2 * 3^e3 * 5^e5)
DMake(neg, n, e2, e3, e5) ==
    [nan |-> FALSE, neg |-> neg /\ n # <<>>, num |-> n, e2 |-> e2, e3 |-> e3, e5 |-> e5]

\* the double of an unsigned integer
DFromBig(a) == DMake(FALSE, a, 0, 0, 0)
DFromNat(n) == DMake(FALSE, BFromNat(n), 0, 0, 0)

\* 1 / 2^k
DInvPow2(k) == DMake(FALSE, <<1>>, k, 0, 0)

\* a * 2^f2 * 3^f3 * 5^f5
BScale(a, f2, f3, f5) == BMulPow(BMulPow(BMulPow2(a, f2), 3, f3), 5, f5)

DIsZero(x) == ~x.nan /\ x.num = <<>>

DNeg(x) == IF x.nan \/ x.num = <<>> THEN x ELSE [x EXCEPT !.neg = ~x.neg]

DMul(x, y) ==
    IF x.nan \/ y.nan THEN DNaN
    ELSE DMake(x.neg # y.neg, BMul(x.num, y.num),
               x.e2 + y.e2, x.e3 + y.e3, x.e5 + y.e5)

\* xn and yn are the numerators over the common denominator
DAddAligned(xneg, xn, yneg, yn, e2, e3, e5) ==
    IF xneg = yneg THEN DMake(xneg, BAdd(xn, yn), e2, e3, e5)
    ELSE IF BLe(yn, xn) THEN DMake(xneg, BSub(xn, yn), e2, e3, e5)
    ELSE DMake(yneg, BSub(yn, xn), e2, e3, e5)

DAdd(x, y) ==
    IF x.nan \/ y.nan THEN DNaN
    ELSE DAddAligned(
            x.neg,
            BScale(x.num, Max(x.e2, y.e2) - x.e2, Max(x.e3, y.e3) - x.e3,
                   Max(x.e5, y.e5) - x.e5),
            y.neg,
            BScale(y.num, Max(x.e2, y.e2) - y.e2, Max(x.e3, y.e3) - y.e3,
                   Max(x.e5, y.e5) - y.e5),
            Max(x.e2, y.e2), Max(x.e3, y.e3), Max(x.e5, y.e5))

DSub(x, y) == DAdd(x, DNeg(y))

DIsPositive(x)    == ~x.nan /\ ~x.neg /\ x.num # <<>>
DIsNonNegative(x) == ~x.nan /\ ~x.neg

\* x < y and x <= y; both are false when an operand is NaN
DLt(x, y) == DIsPositive(DSub(y, x))
DLe(x, y) == DIsNonNegative(DSub(y, x))

\* x == y: false when an operand is NaN
DEq(x, y) == DIsZero(DSub(y, x))

\* std::min(x, y): (y < x) ? y : x
DMin(x, y) == IF DLt(y, x) THEN y ELSE x

\* A power loop that starts from x instead of 1: pow(x, 0) is x.
RECURSIVE DPowFromX(_, _)
DPowFromX(x, n) == IF n <= 1 THEN x ELSE DMul(x, DPowFromX(x, n - 1))

\* std::pow(x, n) for an integer n >= 0: pow(x, 0) is 1 for every x, NaN included
RECURSIVE DPow(_, _)
DPow(x, n) == IF n = 0 THEN DOne ELSE DMul(x, DPow(x, n - 1))

\* x / k for an integer k >= 1 whose prime factors are among 2, 3, 5
RECURSIVE DDivSmooth(_, _)
DDivSmooth(x, k) ==
    IF x.nan \/ k = 1 THEN x
    ELSE IF k % 2 = 0 THEN DDivSmooth([x EXCEPT !.e2 = @ + 1], k \div 2)
    ELSE IF k % 3 = 0 THEN DDivSmooth([x EXCEPT !.e3 = @ + 1], k \div 3)
    ELSE DDivSmooth([x EXCEPT !.e5 = @ + 1], k \div 5)

(***************************************************************************)
(* The argument of sqrt: a signed ratio num / den of naturals.             *)
(***************************************************************************)
Abs(i) == IF i < 0 THEN -i ELSE i

\* threshold <= x, for x >= 0
RGe(x, threshold) == BLe(BMulSmall(x.den, threshold), x.num)

\* erf in the place of erfc: 1 - erfc(sqrt(x)).
ErfSqrt(x) ==
    IF x.neg /\ x.num # <<>> THEN DNaN
    ELSE IF x.num = <<>> THEN DZero
    ELSE IF RGe(x, 740) THEN DOne
    ELSE IF RGe(x, 4) THEN DSub(DOne, DInvPow2(8))
    ELSE IF RGe(x, 1) THEN DSub(DOne, DInvPow2(3))
    ELSE DHalf

\* erfc(sqrt(x)): NaN for x < 0 (the square root of a negative number), 1 at
\* x = 0, 0 from x = 740 on (erfc underflows to 0 in double precision), and
\* between them a decreasing step function with values in (0, 1)
ErfcSqrt(x) ==
    IF x.neg /\ x.num # <<>> THEN DNaN
    ELSE IF x.num = <<>> THEN DOne
    ELSE IF RGe(x, 740) THEN DZero
    ELSE IF RGe(x, 4) THEN DInvPow2(8)
    ELSE IF RGe(x, 1) THEN DInvPow2(3)
    ELSE DHalf

RECURSIVE Log2(_)
Log2(m) == IF m <= 1 THEN 0 ELSE 1 + Log2(m \div 2)

\* std::sqrt(m) for m a power of 4
Sqrt(m) == 2^(Log2(m) \div 2)

(***************************************************************************)
(* The bit error rate of the uncoded modulation.                           *)
(***************************************************************************)
\* snr * signalSpread * 1e6 / phyRate
EbNoOf(snr, signalSpread, phyRate) ==
    [neg |-> snr < 0,
     num |-> BMul(BMul(BFromNat(Abs(snr)), BFromNat(signalSpread)), BFromNat(1000000)),
     den |-> BFromNat(phyRate)]

\* The BER without the factor 0.5.
GetBpskBerWithoutHalf(snr, signalSpread, phyRate) ==
    ErfcSqrt(EbNoOf(snr, signalSpread, phyRate))

\* z = sqrt(EbNo); ber = 0.5 * erfc(z)
GetBpskBer(snr, signalSpread, phyRate) ==
    DMul(DHalf, ErfcSqrt(EbNoOf(snr, signalSpread, phyRate)))

\* the argument of the square root: (1.5 * log2(m) * EbNo) / (m - 1.0)
QamSqrtArg(EbNo, m) ==
    [neg |-> EbNo.neg,
     num |-> BMulSmall(EbNo.num, 3 * Log2(m)),
     den |-> BMulSmall(EbNo.den, 2 * (m - 1))]

\* z1 = (1.0 - 1.0 / sqrt(m)) * erfc(z); z2 = 1 - pow(1 - z1, 2); ber = z2 / log2(m)
GetQamBer(snr, m, signalSpread, phyRate) ==
    LET Z1(erfcz) == DMul(DSub(DOne, DDivSmooth(DOne, Sqrt(m))), erfcz)
        Z2(z1)    == DSub(DOne, DPow(DSub(DOne, z1), 2))
    IN  DDivSmooth(Z2(Z1(ErfcSqrt(QamSqrtArg(EbNoOf(snr, signalSpread, phyRate), m)))),
                   Log2(m))

(***************************************************************************)
(* The code-performance estimator.                                         *)
(***************************************************************************)
\* uint32_t fact = 1; while (k > 0) { fact *= k; k--; }
\* FactorialRange(lo, hi) is the product lo * ... * hi in uint32_t; the
\* multiplication modulo 2^32 is associative and commutative, so that the
\* loop's product k * (k - 1) * ... * 1 is the product of its two halves.
RECURSIVE FactorialRange(_, _)
FactorialRange(lo, hi) ==
    IF lo > hi THEN <<1>>
    ELSE IF lo = hi THEN U32(BFromNat(lo))
    ELSE U32Mul(FactorialRange(lo, (lo + hi) \div 2),
                FactorialRange(((lo + hi) \div 2) + 1, hi))

Factorial(k) == FactorialRange(1, k)

\* Factorial(n) / (Factorial(k) * Factorial(n - k)) in uint32_t
BinomialCoefficient(k, n) ==
    BDiv(Factorial(n), U32Mul(Factorial(k), Factorial(n - k)))

\* Binomial without the factor pow(1 - p, n - k).
BinomialWithoutComplement(k, p, n) ==
    DMul(DFromBig(BinomialCoefficient(k, n)), DPow(p, k))

\* the coefficient, then * pow(p, k) * pow(1 - p, n - k) in double
Binomial(k, p, n) ==
    DMul(DMul(DFromBig(BinomialCoefficient(k, n)), DPow(p, k)),
         DPow(DSub(DOne, p), n - k))

\* The loop with the test i <= dend: the term i = d is added too.
RECURSIVE SumBinomialInclusive(_, _, _, _)
SumBinomialInclusive(ber, d, from, to) ==
    IF from > to THEN DZero
    ELSE DAdd(SumBinomialInclusive(ber, d, from, to - 1), Binomial(to, ber, d))

\* for (i = from; i < to; i++) { pd += Binomial(i, ber, d); }
RECURSIVE SumBinomial(_, _, _, _)
SumBinomial(ber, d, from, to) ==
    IF from >= to THEN DZero
    ELSE DAdd(SumBinomial(ber, d, from, to - 1), Binomial(to - 1, ber, d))

\* ok is the NS_ASSERT of the function
CalculatePdOdd(ber, d) ==
    [ok |-> (d % 2) = 1,
     pd |-> SumBinomial(ber, d, (d + 1) \div 2, d)]

CalculatePdEven(ber, d) ==
    [ok |-> (d % 2) = 0,
     pd |-> DAdd(SumBinomial(ber, d, (d \div 2) + 1, d),
                 DMul(DHalf, Binomial(d \div 2, ber, d)))]

\* CalculatePd with its two branches exchanged.
CalculatePdExchanged(ber, d) ==
    IF (d % 2) = 0 THEN CalculatePdOdd(ber, d) ELSE CalculatePdEven(ber, d)

CalculatePd(ber, d) ==
    IF (d % 2) = 0 THEN CalculatePdEven(ber, d) ELSE CalculatePdOdd(ber, d)

\* The estimator without the line "pmu = std::min(pmu, 1.0)".
ClampPmuMissing(pmu) == pmu

\* pmu = std::min(pmu, 1.0)
ClampPmu(pmu) == DMin(pmu, DOne)

\* The estimator without the test "if (ber == 0.0)".
BerIsZeroMissing(ber) == FALSE

\* if (ber == 0.0): false for NaN
BerIsZero(ber) == DIsZero(ber)

\* The result of a FEC function: the value returned (pms), the raw BER, the
\* number of CalculatePd calls and the clamped pmu; ok is FALSE when an
\* NS_ASSERT of CalculatePdOdd / CalculatePdEven fails.
ShortCircuit(ber) ==
    [ok |-> TRUE, ber |-> ber, pdCalls |-> 0, pmu |-> DZero, pms |-> DOne]

\* The estimator returning the failure rate 1 - pow(1 - pmu, nbits).
EstimateFailureRate(ok, ber, pdCalls, pmu, nbits) ==
    [ok |-> ok, ber |-> ber, pdCalls |-> pdCalls, pmu |-> pmu,
     pms |-> DSub(DOne, DPow(DSub(DOne, pmu), nbits))]

\* The estimator returning 1 - pmu, without the power.
EstimateWithoutPower(ok, ber, pdCalls, pmu, nbits) ==
    [ok |-> ok, ber |-> ber, pdCalls |-> pdCalls, pmu |-> pmu,
     pms |-> DSub(DOne, pmu)]

\* double pms = std::pow(1 - pmu, nbits)
Estimate(ok, ber, pdCalls, pmu, nbits) ==
    [ok |-> ok, ber |-> ber, pdCalls |-> pdCalls, pmu |-> pmu,
     pms |-> DPow(DSub(DOne, pmu), nbits)]

\* (The one-element sets bind the values of ber and pd.)
GetFecBpskBer(snr, nbits, signalSpread, phyRate, dFree, adFree) ==
    LET WithPd(ber) ==
            CHOOSE result \in
                {Estimate(pd.ok, ber, 1, ClampPmu(DMul(DFromNat(adFree), pd.pd)), nbits) :
                    pd \in {CalculatePd(ber, dFree)}} : TRUE
    IN  CHOOSE result \in
            {IF BerIsZero(ber) THEN ShortCircuit(ber) ELSE WithPd(ber) :
                ber \in {GetBpskBer(snr, signalSpread, phyRate)}} : TRUE

\* GetFecQamBer with "pmu = adFreePlusOne * pd" for the second term: the
\* first term is overwritten.
GetFecQamBerOverwriting(snr, nbits, signalSpread, phyRate, m, dFree, adFree, adFreePlusOne) ==
    LET WithPd(ber) ==
            CHOOSE result \in
                {Estimate(pd[1].ok /\ pd[2].ok, ber, 2,
                          ClampPmu(DMul(DFromNat(adFreePlusOne), pd[2].pd)), nbits) :
                    pd \in {<<CalculatePd(ber, dFree), CalculatePd(ber, dFree + 1)>>}} : TRUE
    IN  CHOOSE result \in
            {IF BerIsZero(ber) THEN ShortCircuit(ber) ELSE WithPd(ber) :
                ber \in {GetQamBer(snr, m, signalSpread, phyRate)}} : TRUE

GetFecQamBer(snr, nbits, signalSpread, phyRate, m, dFree, adFree, adFreePlusOne) ==
    LET \* pd[1] is the first term, pd[2] the second term
        WithPd(ber) ==
            CHOOSE result \in
                {Estimate(pd[1].ok /\ pd[2].ok, ber, 2,
                          ClampPmu(DAdd(DMul(DFromNat(adFree), pd[1].pd),
                                        DMul(DFromNat(adFreePlusOne), pd[2].pd))),
                          nbits) :
                    pd \in {<<CalculatePd(ber, dFree), CalculatePd(ber, dFree + 1)>>}} : TRUE
    IN  CHOOSE result \in
            {IF BerIsZero(ber) THEN ShortCircuit(ber) ELSE WithPd(ber) :
                ber \in {GetQamBer(snr, m, signalSpread, phyRate)}} : TRUE

(***************************************************************************)
(* Modes and transmission vectors.                                         *)
(***************************************************************************)
\* enum WifiModulationClass, in its declaration order
WIFI_MOD_CLASS_DSSS     == 1
WIFI_MOD_CLASS_HR_DSSS  == 2
WIFI_MOD_CLASS_ERP_OFDM == 3
WIFI_MOD_CLASS_OFDM     == 4
WIFI_MOD_CLASS_HT       == 5
WIFI_MOD_CLASS_VHT      == 6
WIFI_MOD_CLASS_HE       == 7
WIFI_MOD_CLASS_EHT      == 8

\* the station id of a single-user transmission
SU_STA_ID == 65535

CodeRates ==
    {"WIFI_CODE_RATE_1_2", "WIFI_CODE_RATE_2_3", "WIFI_CODE_RATE_3_4", "WIFI_CODE_RATE_5_6"}

\* the constellation sizes of the coded OFDM modes, and one (8) that no
\* branch of the dispatch handles
ConstellationSizes == {2, 4, 8, 16, 64, 256, 1024, 4096}

ClassOfConstellation(m) ==
    CASE m = 2    -> WIFI_MOD_CLASS_ERP_OFDM
      [] m = 4    -> WIFI_MOD_CLASS_OFDM
      [] m = 256  -> WIFI_MOD_CLASS_VHT
      [] m = 1024 -> WIFI_MOD_CLASS_HE
      [] m = 4096 -> WIFI_MOD_CLASS_EHT
      [] OTHER    -> WIFI_MOD_CLASS_HT

OfdmModes ==
    {[modClass |-> ClassOfConstellation(m), constellationSize |-> m, codeRate |-> r] :
        m \in ConstellationSizes, r \in CodeRates}

DsssModes ==
    {[modClass |-> WIFI_MOD_CLASS_DSSS, constellationSize |-> 2,
      codeRate |-> "WIFI_CODE_RATE_UNDEFINED"],
     [modClass |-> WIFI_MOD_CLASS_HR_DSSS, constellationSize |-> 4,
      codeRate |-> "WIFI_CODE_RATE_UNDEFINED"]}

Modes == OfdmModes \cup DsssModes

\* the mode of a PHY header carried at the lowest OFDM rate
HeaderMode ==
    [modClass |-> WIFI_MOD_CLASS_OFDM, constellationSize |-> 2,
     codeRate |-> "WIFI_CODE_RATE_1_2"]

ChannelWidths == {10, 20, 40}
StaIds        == {SU_STA_ID, 1}
SnrValues     == {-1, 0, 2, 10000000}
MaxNbits      == 2

\* A transmission vector: its channel width (MHz), whether it is multi-user,
\* and the mode it assigns to the station of the call (GetMode(staId)).
TxVectors(mode) ==
    [channelWidth : ChannelWidths, isMu : BOOLEAN, mode : {mode, HeaderMode}]

\* WifiMode::GetPhyRate(channelWidth): the coded bit rate of the mode on a
\* channel of that width, 48 data subcarriers per 20 MHz and 4 us per symbol
GetPhyRate(mode, channelWidth) ==
    600000 * channelWidth * Log2(mode.constellationSize)

\* WifiMode::GetPhyRate(txVector, staId)
GetPhyRateTx(mode, txVector, staId) == GetPhyRate(mode, txVector.channelWidth)

(***************************************************************************)
(* DoGetChunkSuccessRate.                                                  *)
(***************************************************************************)
\* The eligibility test with its threshold one class too high.
IsEligibleFromOfdm(mode) == mode.modClass >= WIFI_MOD_CLASS_OFDM

\* The eligibility test with its threshold one class too low.
IsEligibleFromHrDsss(mode) == mode.modClass >= WIFI_MOD_CLASS_HR_DSSS

\* mode.GetModulationClass() >= WIFI_MOD_CLASS_ERP_OFDM
IsEligible(mode) == mode.modClass >= WIFI_MOD_CLASS_ERP_OFDM

\* (txVector.IsMu() && (staId == SU_STA_ID)) || (mode != txVector.GetMode(staId))
IsPhyHeader(mode, txVector, staId) ==
    (txVector.isMu /\ (staId = SU_STA_ID)) \/ (mode # txVector.mode)

\* The test with its operands exchanged:
\* (mode != txVector.GetMode(staId)) || (txVector.IsMu() && (staId == SU_STA_ID))
HeaderTestQueriesModeFirst(mode, txVector, staId) ==
    IF mode # txVector.mode THEN <<"GetMode">> ELSE <<"GetMode", "IsMu">>

\* The member functions of txVector that the test of IsPhyHeader calls, in
\* the order of the calls: && and || evaluate their right operand only when
\* the left one does not decide.
HeaderTestQueries(mode, txVector, staId) ==
    IF txVector.isMu /\ (staId = SU_STA_ID) THEN <<"IsMu">> ELSE <<"IsMu", "GetMode">>

\* The PHY header evaluated at the full channel width.
HeaderWidthUnclamped(channelWidth) == channelWidth

\* txVector.GetChannelWidth() >= MHz_u{40} ? MHz_u{20} : txVector.GetChannelWidth()
HeaderWidth(channelWidth) == IF channelWidth >= 40 THEN 20 ELSE channelWidth

NoFec == [fn |-> "none", m |-> 0, dFree |-> 0, adFree |-> 0, adFreePlusOne |-> 0]

\* The binary rows called with the weight 1.
BpskUnitWeight(dFree, adFree) ==
    [fn |-> "GetFecBpskBer", m |-> 2, dFree |-> dFree, adFree |-> 1,
     adFreePlusOne |-> 0]

Bpsk(dFree, adFree) ==
    [fn |-> "GetFecBpskBer", m |-> 2, dFree |-> dFree, adFree |-> adFree,
     adFreePlusOne |-> 0]

\* Every M-ary branch calling GetFecQamBer with m = 4.
QamOfFour(m, dFree, adFree, adFreePlusOne) ==
    [fn |-> "GetFecQamBer", m |-> 4, dFree |-> dFree, adFree |-> adFree,
     adFreePlusOne |-> adFreePlusOne]

\* A call of GetFecQamBer with its last two arguments exchanged.
QamWeightsExchanged(m, dFree, adFree, adFreePlusOne) ==
    [fn |-> "GetFecQamBer", m |-> m, dFree |-> dFree, adFree |-> adFreePlusOne,
     adFreePlusOne |-> adFree]

Qam(m, dFree, adFree, adFreePlusOne) ==
    [fn |-> "GetFecQamBer", m |-> m, dFree |-> dFree, adFree |-> adFree,
     adFreePlusOne |-> adFreePlusOne]

\* The if / else-if chain on the constellation size and the code rate: the
\* FEC function called and the coefficients it is given, NoFec when no branch
\* is taken.
Dispatch(mode) ==
    LET size == mode.constellationSize
        rate == mode.codeRate
    IN  IF size = 2
        THEN IF rate = "WIFI_CODE_RATE_1_2" THEN Bpsk(10, 11) ELSE Bpsk(5, 8)
        ELSE IF size = 4
        THEN IF rate = "WIFI_CODE_RATE_1_2" THEN Qam(4, 10, 11, 0) ELSE Qam(4, 5, 8, 31)
        ELSE IF size = 16
        THEN IF rate = "WIFI_CODE_RATE_1_2" THEN Qam(16, 10, 11, 0) ELSE Qam(16, 5, 8, 31)
        ELSE IF size = 64
        THEN IF rate = "WIFI_CODE_RATE_2_3" THEN Qam(64, 6, 1, 16)
             ELSE IF rate = "WIFI_CODE_RATE_5_6" THEN Qam(64, 4, 14, 69)
             ELSE Qam(64, 5, 8, 31)
        ELSE IF size = 256
        THEN IF rate = "WIFI_CODE_RATE_5_6" THEN Qam(256, 4, 14, 69) ELSE Qam(256, 5, 8, 31)
        ELSE IF size = 1024
        THEN IF rate = "WIFI_CODE_RATE_5_6" THEN Qam(1024, 4, 14, 69) ELSE Qam(1024, 5, 8, 31)
        ELSE IF size = 4096
        THEN IF rate = "WIFI_CODE_RATE_5_6" THEN Qam(4096, 4, 14, 69) ELSE Qam(4096, 5, 8, 31)
        ELSE NoFec

(***************************************************************************)
(* The state: one call of DoGetChunkSuccessRate at a time.                 *)
(*   pc        where the call is: "idle", "entry", "dispatch", "fec",      *)
(*             "done" (a value was returned), "abort" (an NS_ASSERT failed)*)
(*   mode, txVector, snr, nbits, staId   the arguments of the call         *)
(*   rate      the GetPhyRate overload called, its width and its result    *)
(*   fec       the FEC function the dispatch calls and its coefficients    *)
(*   est       what the FEC function computed                              *)
(*   retval    the value returned                                          *)
(***************************************************************************)
VARIABLES pc, mode, txVector, snr, nbits, staId, rate, fec, est, retval

(***************************************************************************)
(*   probe     a direct call of one of the functions of the estimator, with *)
(*             its arguments and what it computed                           *)
(***************************************************************************)
VARIABLE probe

(***************************************************************************)
(*   object    what the calls have stored in the model object (the class   *)
(*             has no data member and every member function is const): a   *)
(*             set of <<location, value>> pairs                            *)
(***************************************************************************)
VARIABLE object

(***************************************************************************)
(* Calls running concurrently on the one model object, one per thread:     *)
(*   cpc       where the call of each thread is                            *)
(*   cargs     the arguments the caller of each thread passed              *)
(*   frames    the activation records: the parameters and locals of a call *)
(*   owner     for each activation record, the thread that last wrote it   *)
(*             (0: nobody)                                                 *)
(***************************************************************************)
VARIABLES cpc, cargs, frames, owner

vars == <<pc, mode, txVector, snr, nbits, staId, rate, fec, est, retval, probe, object,
          cpc, cargs, frames, owner>>

threads == <<cpc, cargs, frames, owner>>

\* the state outside the frame of a call of DoGetChunkSuccessRate
outside == <<probe, threads>>

Threads == {1, 2}

\* the model object as constructed: nothing stored
NothingStored == {}

NoProbe == [fn |-> "none"]

NoRate == [call |-> "none", width |-> 0, phyRate |-> 0]

\* What the caller sees when the call ends at the last line, "return 0".
ReturnZero == [pc |-> "done", retval |-> DZero]
NoEst  == [called |-> FALSE, ber |-> DZero, pdCalls |-> 0, pmu |-> DZero]

\* The whole call as a function of its arguments: how it ends (pc), the
\* value returned and the raw BER computed (called is FALSE when no FEC
\* function is reached).
DoGetChunkSuccessRate(m, tv, s, n, sid) ==
    LET Unmodeled == [pc |-> ReturnZero.pc, retval |-> ReturnZero.retval,
                      called |-> FALSE, ber |-> DZero]
        Ending(r) == [pc |-> IF r.ok THEN "done" ELSE "abort", retval |-> r.pms,
                      called |-> TRUE, ber |-> r.ber]
        Fec(row, phyRate) ==
            IF row.fn = "none" THEN Unmodeled
            ELSE IF row.fn = "GetFecBpskBer"
            THEN CHOOSE e \in
                    {Ending(r) : r \in {GetFecBpskBer(s, n, tv.channelWidth, phyRate,
                                                      row.dFree, row.adFree)}} : TRUE
            ELSE CHOOSE e \in
                    {Ending(r) : r \in {GetFecQamBer(s, n, tv.channelWidth, phyRate, row.m,
                                                     row.dFree, row.adFree,
                                                     row.adFreePlusOne)}} : TRUE
    IN  IF ~IsEligible(m) THEN Unmodeled
        ELSE IF IsPhyHeader(m, tv, sid)
        THEN Fec(Dispatch(m), GetPhyRate(m, HeaderWidth(tv.channelWidth)))
        ELSE Fec(Dispatch(m), GetPhyRateTx(m, tv, sid))

\* the arguments of a call
Args(m, tv, s, n, sid) ==
    [mode |-> m, txVector |-> tv, snr |-> s, nbits |-> n, staId |-> sid]

NoArgs ==
    Args(HeaderMode, [channelWidth |-> 20, isMu |-> FALSE, mode |-> HeaderMode],
         0, 0, SU_STA_ID)

\* an activation record: the parameters, then the locals
NewFrame(a) == [args |-> a, rate |-> NoRate, fec |-> NoFec, est |-> NoEst, retval |-> DZero]

NoFrame == NewFrame(NoArgs)

\* The header branch taken when the field is not the data field.
DoGetChunkSuccessRateByField(m, tv, s, n, numRxAntennas, field, sid) ==
    IF field = "WIFI_PPDU_FIELD_DATA" THEN DoGetChunkSuccessRate(m, tv, s, n, sid)
    ELSE DoGetChunkSuccessRate(m, [tv EXCEPT !.isMu = TRUE], s, n, SU_STA_ID)

\* The call with all its parameters: numRxAntennas and field are only logged.
DoGetChunkSuccessRateOf(m, tv, s, n, numRxAntennas, field, sid) ==
    DoGetChunkSuccessRate(m, tv, s, n, sid)

Init ==
    /\ pc = "idle"
    /\ mode = HeaderMode
    /\ txVector = [channelWidth |-> 20, isMu |-> FALSE, mode |-> HeaderMode]
    /\ snr = 0
    /\ nbits = 0
    /\ staId = SU_STA_ID
    /\ rate = NoRate
    /\ fec = NoFec
    /\ est = NoEst
    /\ retval = DZero
    /\ probe = NoProbe
    /\ object = NothingStored
    /\ cpc = [t \in Threads |-> "idle"]
    /\ cargs = [t \in Threads |-> NoArgs]
    /\ frames = [f \in Threads |-> NoFrame]
    /\ owner = [f \in Threads |-> 0]

\* A caller invokes DoGetChunkSuccessRate(mode, txVector, snr, nbits, ..., staId).
Call ==
    /\ pc = "idle"
    /\ \E m \in Modes : \E tv \in TxVectors(m) :
       \E s \in SnrValues, n \in 0..MaxNbits, sid \in StaIds :
          /\ mode' = m
          /\ txVector' = tv
          /\ snr' = s
          /\ nbits' = n
          /\ staId' = sid
    /\ pc' = "entry"
    /\ rate' = NoRate
    /\ fec' = NoFec
    /\ est' = NoEst
    /\ retval' = DZero
    /\ UNCHANGED <<outside, object>>

\* The modulation class is below ERP-OFDM: the body of the if is skipped and
\* the function ends at "return 0".
ReturnUnmodeled ==
    /\ pc = "entry"
    /\ ~IsEligible(mode)
    /\ retval' = ReturnZero.retval
    /\ pc' = ReturnZero.pc
    /\ UNCHANGED <<mode, txVector, snr, nbits, staId, rate, fec, est>>
    /\ UNCHANGED <<outside, object>>

\* The choice of phyRate kept in the model object by the first call and
\* taken from there by the later ones.
SelectPhyRateMemoized ==
    /\ pc = "entry"
    /\ IsEligible(mode)
    /\ \E computed \in
            {IF IsPhyHeader(mode, txVector, staId)
             THEN [call    |-> "GetPhyRate(channelWidth)",
                   width   |-> HeaderWidth(txVector.channelWidth),
                   phyRate |-> GetPhyRate(mode, HeaderWidth(txVector.channelWidth))]
             ELSE [call    |-> "GetPhyRate(txVector, staId)",
                   width   |-> txVector.channelWidth,
                   phyRate |-> GetPhyRateTx(mode, txVector, staId)]} :
          IF object = NothingStored
          THEN rate' = computed /\ object' = {<<"phyRate", computed.phyRate>>}
          ELSE /\ \E kept \in object : rate' = [computed EXCEPT !.phyRate = kept[2]]
               /\ object' = object
    /\ pc' = "dispatch"
    /\ UNCHANGED <<mode, txVector, snr, nbits, staId, fec, est, retval>>
    /\ UNCHANGED outside

\* The choice of phyRate.
SelectPhyRate ==
    /\ pc = "entry"
    /\ IsEligible(mode)
    /\ rate' = IF IsPhyHeader(mode, txVector, staId)
               THEN [call    |-> "GetPhyRate(channelWidth)",
                     width   |-> HeaderWidth(txVector.channelWidth),
                     phyRate |-> GetPhyRate(mode, HeaderWidth(txVector.channelWidth))]
               ELSE [call    |-> "GetPhyRate(txVector, staId)",
                     width   |-> txVector.channelWidth,
                     phyRate |-> GetPhyRateTx(mode, txVector, staId)]
    /\ pc' = "dispatch"
    /\ UNCHANGED <<mode, txVector, snr, nbits, staId, fec, est, retval>>
    /\ UNCHANGED <<outside, object>>

\* The dispatch on the constellation size and code rate; with no branch taken
\* the function falls through to "return 0".
SelectFec ==
    /\ pc = "dispatch"
    /\ fec' = Dispatch(mode)
    /\ pc' = IF Dispatch(mode).fn = "none" THEN ReturnZero.pc ELSE "fec"
    /\ retval' = ReturnZero.retval
    /\ UNCHANGED <<mode, txVector, snr, nbits, staId, rate, est>>
    /\ UNCHANGED <<outside, object>>

Finish(r) ==
    /\ est' = [called |-> TRUE, ber |-> r.ber, pdCalls |-> r.pdCalls, pmu |-> r.pmu]
    /\ retval' = r.pms
    /\ pc' = IF r.ok THEN "done" ELSE "abort"
    /\ UNCHANGED <<mode, txVector, snr, nbits, staId, rate, fec>>
    /\ UNCHANGED <<outside, object>>

\* GetFecBpskBer given the width the bitrate was computed at as signal spread.
CallGetFecBpskBerAtRateWidth ==
    /\ pc = "fec"
    /\ fec.fn = "GetFecBpskBer"
    /\ \E r \in {GetFecBpskBer(snr, nbits, rate.width, rate.phyRate,
                              fec.dFree, fec.adFree)} : Finish(r)

\* return GetFecBpskBer(snr, nbits, txVector.GetChannelWidth(), phyRate, dFree, adFree)
CallGetFecBpskBer ==
    /\ pc = "fec"
    /\ fec.fn = "GetFecBpskBer"
    /\ \E r \in {GetFecBpskBer(snr, nbits, txVector.channelWidth, rate.phyRate,
                              fec.dFree, fec.adFree)} : Finish(r)

\* return GetFecQamBer(snr, nbits, txVector.GetChannelWidth(), phyRate, m, dFree,
\*                     adFree, adFreePlusOne)
CallGetFecQamBer ==
    /\ pc = "fec"
    /\ fec.fn = "GetFecQamBer"
    /\ \E r \in {GetFecQamBer(snr, nbits, txVector.channelWidth, rate.phyRate,
                             fec.m, fec.dFree, fec.adFree, fec.adFreePlusOne)} : Finish(r)

\* The caller takes the result; the model object keeps nothing of the call.
Return ==
    /\ pc \in {"done", "abort"}
    /\ pc' = "idle"
    /\ mode' = HeaderMode
    /\ txVector' = [channelWidth |-> 20, isMu |-> FALSE, mode |-> HeaderMode]
    /\ snr' = 0
    /\ nbits' = 0
    /\ staId' = SU_STA_ID
    /\ rate' = NoRate
    /\ fec' = NoFec
    /\ est' = NoEst
    /\ retval' = DZero
    /\ UNCHANGED <<outside, object>>

Next ==
    \/ Call
    \/ ReturnUnmodeled
    \/ SelectPhyRate
    \/ SelectFec
    \/ CallGetFecBpskBer
    \/ CallGetFecQamBer
    \/ Return

Spec == Init /\ [][Next]_vars

(***************************************************************************)
(* The functions of the estimator called on their own: Binomial and        *)
(* CalculatePd are pure functions of their arguments.                      *)
(***************************************************************************)
\* the largest distance n (or d) of a direct call
MaxDistance == 13

\* the bit error rates of a direct call: 0, 1/512, 1/16, 1/4 and 1/2
BerValues == {DZero, DInvPow2(9), DInvPow2(4), DInvPow2(2), DHalf}

call == <<pc, mode, txVector, snr, nbits, staId, rate, fec, est, retval>>

\* Binomial(k, p, n)
CallBinomial ==
    /\ probe = NoProbe
    /\ \E n \in 0..MaxDistance : \E k \in 0..n : \E p \in BerValues :
          probe' = [fn          |-> "Binomial", k |-> k, p |-> p, n |-> n,
                    coefficient |-> BinomialCoefficient(k, n),
                    retval      |-> Binomial(k, p, n)]
    /\ UNCHANGED <<call, object, threads>>

\* CalculatePd(ber, d)
CallCalculatePd ==
    /\ probe = NoProbe
    /\ \E d \in 1..MaxDistance : \E ber \in BerValues :
       \E r \in {CalculatePd(ber, d)} :
          probe' = [fn |-> "CalculatePd", ber |-> ber, d |-> d,
                    ok |-> r.ok, retval |-> r.pd]
    /\ UNCHANGED <<call, object, threads>>

\* the modes of the concurrent calls: BPSK 1/2, 16-QAM 3/4, DSSS (not
\* eligible) and a constellation size without a branch
ConcurrentModes ==
    {HeaderMode,
     [modClass |-> ClassOfConstellation(16), constellationSize |-> 16,
      codeRate |-> "WIFI_CODE_RATE_3_4"],
     [modClass |-> WIFI_MOD_CLASS_DSSS, constellationSize |-> 2,
      codeRate |-> "WIFI_CODE_RATE_UNDEFINED"],
     [modClass |-> ClassOfConstellation(8), constellationSize |-> 8,
      codeRate |-> "WIFI_CODE_RATE_1_2"]}

ConcurrentSnrValues == {0, 2}

\* the SNRs of the calls compared, in increasing order
ProbeSnrValues == <<0, 1, 3, 10, 100, 10000, 10000000>>

\* the transmission vectors of the calls compared: 40 MHz, for the payload
\* (rate at 40 MHz) and for the header (rate at the clamped width, 20 MHz)
ProbeTxVectors(m) ==
    {tv \in TxVectors(m) : tv.channelWidth = 40 /\ ~tv.isMu}

\* Two calls of DoGetChunkSuccessRate with the same mode, txVector and staId:
\* the second with the next higher SNR or with one more bit.
CallTwice ==
    /\ probe = NoProbe
    /\ \E m \in Modes : \E tv \in ProbeTxVectors(m) :
       \E i \in 1..Len(ProbeSnrValues), n \in 0..MaxNbits :
       \E b \in {[snr |-> ProbeSnrValues[j], nbits |-> n] :
                     j \in {i + 1} \cap (1..Len(ProbeSnrValues))}
                \cup {[snr |-> ProbeSnrValues[i], nbits |-> k] :
                        k \in {n + 1} \cap (0..MaxNbits)} :
       \E r \in {<<DoGetChunkSuccessRate(m, tv, ProbeSnrValues[i], n, SU_STA_ID),
                   DoGetChunkSuccessRate(m, tv, b.snr, b.nbits, SU_STA_ID)>>} :
          probe' = [fn |-> "DoGetChunkSuccessRate", mode |-> m, txVector |-> tv,
                    snr |-> <<ProbeSnrValues[i], b.snr>>, nbits |-> <<n, b.nbits>>,
                    out |-> r]
    /\ UNCHANGED <<call, object, threads>>

\* the values of the parameters field and numRxAntennas
Fields ==
    {"WIFI_PPDU_FIELD_PREAMBLE", "WIFI_PPDU_FIELD_NON_HT_HEADER", "WIFI_PPDU_FIELD_DATA"}

RxAntennas == {1, 2}

\* Two calls of DoGetChunkSuccessRate that differ only in field and / or
\* numRxAntennas.
CallWithFields ==
    /\ probe = NoProbe
    /\ \E m \in ConcurrentModes : \E tv \in ProbeTxVectors(m) :
       \E s \in ConcurrentSnrValues :
       \E a \in Fields \X RxAntennas, b \in Fields \X RxAntennas :
          /\ a # b
          /\ \E r \in {<<DoGetChunkSuccessRateOf(m, tv, s, MaxNbits, a[2], a[1], SU_STA_ID),
                          DoGetChunkSuccessRateOf(m, tv, s, MaxNbits, b[2], b[1], SU_STA_ID)>>} :
                probe' = [fn |-> "DoGetChunkSuccessRate.field", mode |-> m,
                          txVector |-> tv, snr |-> s, nbits |-> MaxNbits,
                          field |-> <<a[1], b[1]>>, numRxAntennas |-> <<a[2], b[2]>>,
                          out |-> r]
    /\ UNCHANGED <<call, object, threads>>

\* the transmission vectors of the bitrate step: a multi-user transmission
\* occupies at least 20 MHz
BitrateStepTxVectors(m) ==
    {tv \in TxVectors(m) : tv.isMu => tv.channelWidth >= 20}

\* The bitrate step of DoGetChunkSuccessRate on an eligible mode.
CallBitrateStep ==
    /\ probe = NoProbe
    /\ \E m \in {cm \in ConcurrentModes : IsEligible(cm)} :
       \E tv \in BitrateStepTxVectors(m), sid \in StaIds :
          probe' = [fn |-> "phyRate", mode |-> m, txVector |-> tv, staId |-> sid,
                    queries |-> HeaderTestQueries(m, tv, sid),
                    header |-> IsPhyHeader(m, tv, sid),
                    phyRate |-> IF IsPhyHeader(m, tv, sid)
                                THEN GetPhyRate(m, HeaderWidth(tv.channelWidth))
                                ELSE GetPhyRateTx(m, tv, sid)]
    /\ UNCHANGED <<call, object, threads>>

\* the bit error rates of the calls compared, in increasing order: 0, 1/512,
\* 1/16, 1/4, 3/8 and 1/2
BerSequence ==
    <<DZero, DInvPow2(9), DInvPow2(4), DInvPow2(2), DMake(FALSE, <<3>>, 3, 0, 0), DHalf>>

\* CalculatePd(ber, d) at two consecutive bit error rates
CallCalculatePdTwice ==
    /\ probe = NoProbe
    /\ \E d \in 1..MaxDistance : \E i \in 1..(Len(BerSequence) - 1) :
       \E r \in {<<CalculatePd(BerSequence[i], d), CalculatePd(BerSequence[i + 1], d)>>} :
          probe' = [fn |-> "CalculatePd.pair", d |-> d,
                    ber |-> <<BerSequence[i], BerSequence[i + 1]>>,
                    ok |-> r[1].ok /\ r[2].ok,
                    pd |-> <<r[1].pd, r[2].pd>>]
    /\ UNCHANGED <<call, object, threads>>

\* the caller drops the value and may call again
Discard ==
    /\ probe # NoProbe
    /\ probe' = NoProbe
    /\ UNCHANGED <<call, object, threads>>

NextProbe ==
    \/ CallBinomial
    \/ CallCalculatePd
    \/ CallTwice
    \/ CallWithFields
    \/ CallBitrateStep
    \/ CallCalculatePdTwice
    \/ Discard

SpecProbe == Init /\ [][NextProbe]_vars

(***************************************************************************)
(* The loops of Factorial and of CalculatePdOdd / CalculatePdEven, one     *)
(* iteration per step.  probe holds the locals of the function running.    *)
(***************************************************************************)
\* uint32_t fact = 1; and the first evaluation of the loop test
FactorialEnter ==
    /\ probe = NoProbe
    /\ \E k \in 0..MaxDistance :
          probe' = [fn |-> "Factorial", arg |-> k, k |-> k, fact |-> <<1>>,
                    iterations |-> 0, done |-> FALSE]
    /\ UNCHANGED <<call, object, threads>>

\* The loop body without "k--".
FactorialIterateWithoutDecrement ==
    /\ probe.fn = "Factorial" /\ ~probe.done
    /\ probe.k > 0
    /\ probe' = [probe EXCEPT !.fact = U32Mul(probe.fact, BFromNat(probe.k)),
                              !.iterations = probe.iterations + 1]
    /\ UNCHANGED <<call, object, threads>>

\* while (k > 0) { fact *= k; k--; }
FactorialIterate ==
    /\ probe.fn = "Factorial" /\ ~probe.done
    /\ probe.k > 0
    /\ probe' = [probe EXCEPT !.fact = U32Mul(probe.fact, BFromNat(probe.k)),
                              !.k = probe.k - 1,
                              !.iterations = probe.iterations + 1]
    /\ UNCHANGED <<call, object, threads>>

\* return fact
FactorialReturn ==
    /\ probe.fn = "Factorial" /\ ~probe.done
    /\ ~(probe.k > 0)
    /\ probe' = [probe EXCEPT !.done = TRUE]
    /\ UNCHANGED <<call, object, threads>>

\* A loop bound two past the argument.
PdEndPastArgument(d) == d + 2

\* unsigned int dend = d
PdEnd(d) == d

\* i < dend
PdLoopTest(i, dend) == i < dend

\* CalculatePd(ber, d) enters CalculatePdEven or CalculatePdOdd: dstart, dend
\* and pd = 0
CalculatePdEnter ==
    /\ probe = NoProbe
    /\ \E d \in 0..MaxDistance : \E ber \in BerValues :
          probe' = [fn |-> "CalculatePd.loop", ber |-> ber, d |-> d,
                    even |-> (d % 2) = 0,
                    i |-> IF (d % 2) = 0 THEN (d \div 2) + 1 ELSE (d + 1) \div 2,
                    dend |-> PdEnd(d), pd |-> DZero, evaluations |-> 0,
                    at |-> "loop", done |-> FALSE]
    /\ UNCHANGED <<call, object, threads>>

\* pd += Binomial(i, ber, d); i++
CalculatePdIterate ==
    /\ probe.fn = "CalculatePd.loop" /\ probe.at = "loop"
    /\ PdLoopTest(probe.i, probe.dend)
    /\ \E term \in {Binomial(probe.i, probe.ber, probe.d)} :
          probe' = [probe EXCEPT !.pd = DAdd(probe.pd, term),
                                 !.i = probe.i + 1,
                                 !.evaluations = probe.evaluations + 1]
    /\ UNCHANGED <<call, object, threads>>

\* the loop test fails: CalculatePdOdd returns, CalculatePdEven goes on
CalculatePdLeaveLoop ==
    /\ probe.fn = "CalculatePd.loop" /\ probe.at = "loop"
    /\ ~PdLoopTest(probe.i, probe.dend)
    /\ probe' = IF probe.even THEN [probe EXCEPT !.at = "half"]
                 ELSE [probe EXCEPT !.at = "return", !.done = TRUE]
    /\ UNCHANGED <<call, object, threads>>

\* pd += 0.5 * Binomial(d / 2, ber, d); return pd
CalculatePdHalfTerm ==
    /\ probe.fn = "CalculatePd.loop" /\ probe.at = "half"
    /\ \E term \in {DMul(DHalf, Binomial(probe.d \div 2, probe.ber, probe.d))} :
          probe' = [probe EXCEPT !.pd = DAdd(probe.pd, term),
                                 !.evaluations = probe.evaluations + 1,
                                 !.at = "return", !.done = TRUE]
    /\ UNCHANGED <<call, object, threads>>

\* the caller takes the value returned
LoopResultTaken ==
    /\ probe.fn \in {"Factorial", "CalculatePd.loop"} /\ probe.done
    /\ probe' = NoProbe
    /\ UNCHANGED <<call, object, threads>>

\* the steps of a function that is running
LoopStep ==
    \/ FactorialIterate
    \/ FactorialReturn
    \/ CalculatePdIterate
    \/ CalculatePdLeaveLoop
    \/ CalculatePdHalfTerm

NextLoops ==
    \/ FactorialEnter
    \/ CalculatePdEnter
    \/ LoopStep
    \/ LoopResultTaken

SpecLoops == Init /\ [][NextLoops]_vars

(***************************************************************************)
(* Concurrent calls.  Each thread runs DoGetChunkSuccessRate on its own     *)
(* activation record; the steps of the threads interleave.                 *)
(***************************************************************************)
\* One activation record for all the calls: the locals declared static.
FrameShared(t) == 1

\* the activation record of the call of thread t: automatic storage, one per call
Frame(t) == t

ConcurrentArgs ==
    {Args(m, tv, s, MaxNbits, SU_STA_ID) :
        m \in ConcurrentModes, tv \in UNION {ProbeTxVectors(cm) : cm \in ConcurrentModes},
        s \in ConcurrentSnrValues}

\* the step of thread t writes its activation record
Write(t, frame) ==
    /\ frames' = [frames EXCEPT ![Frame(t)] = frame]
    /\ owner' = [owner EXCEPT ![Frame(t)] = t]

ThreadCall(t) ==
    /\ cpc[t] = "idle"
    /\ \E a \in ConcurrentArgs :
          /\ cargs' = [cargs EXCEPT ![t] = a]
          /\ Write(t, NewFrame(a))
    /\ cpc' = [cpc EXCEPT ![t] = "entry"]
    /\ UNCHANGED <<call, probe, object>>

ThreadReturnUnmodeled(t) ==
    /\ cpc[t] = "entry"
    /\ ~IsEligible(frames[Frame(t)].args.mode)
    /\ Write(t, [frames[Frame(t)] EXCEPT !.retval = ReturnZero.retval])
    /\ cpc' = [cpc EXCEPT ![t] = ReturnZero.pc]
    /\ UNCHANGED <<call, probe, object, cargs>>

ThreadSelectPhyRate(t) ==
    /\ cpc[t] = "entry"
    /\ \E a \in {frames[Frame(t)].args} :
          /\ IsEligible(a.mode)
          /\ Write(t, [frames[Frame(t)] EXCEPT !.rate =
                    IF IsPhyHeader(a.mode, a.txVector, a.staId)
                    THEN [call    |-> "GetPhyRate(channelWidth)",
                          width   |-> HeaderWidth(a.txVector.channelWidth),
                          phyRate |-> GetPhyRate(a.mode,
                                                 HeaderWidth(a.txVector.channelWidth))]
                    ELSE [call    |-> "GetPhyRate(txVector, staId)",
                          width   |-> a.txVector.channelWidth,
                          phyRate |-> GetPhyRateTx(a.mode, a.txVector, a.staId)]])
    /\ cpc' = [cpc EXCEPT ![t] = "dispatch"]
    /\ UNCHANGED <<call, probe, object, cargs>>

ThreadSelectFec(t) ==
    /\ cpc[t] = "dispatch"
    /\ \E row \in {Dispatch(frames[Frame(t)].args.mode)} :
          /\ Write(t, [frames[Frame(t)] EXCEPT !.fec = row,
                                               !.retval = ReturnZero.retval])
          /\ cpc' = [cpc EXCEPT ![t] = IF row.fn = "none" THEN ReturnZero.pc ELSE "fec"]
    /\ UNCHANGED <<call, probe, object, cargs>>

ThreadFinish(t, r) ==
    /\ Write(t, [frames[Frame(t)] EXCEPT
                    !.est = [called |-> TRUE, ber |-> r.ber, pdCalls |-> r.pdCalls,
                             pmu |-> r.pmu],
                    !.retval = r.pms])
    /\ cpc' = [cpc EXCEPT ![t] = IF r.ok THEN "done" ELSE "abort"]
    /\ UNCHANGED <<call, probe, object, cargs>>

ThreadCallGetFecBpskBer(t) ==
    /\ cpc[t] = "fec"
    /\ \E f \in {frames[Frame(t)]} :
          /\ f.fec.fn = "GetFecBpskBer"
          /\ \E r \in {GetFecBpskBer(f.args.snr, f.args.nbits, f.args.txVector.channelWidth,
                                    f.rate.phyRate, f.fec.dFree, f.fec.adFree)} :
                ThreadFinish(t, r)

ThreadCallGetFecQamBer(t) ==
    /\ cpc[t] = "fec"
    /\ \E f \in {frames[Frame(t)]} :
          /\ f.fec.fn = "GetFecQamBer"
          /\ \E r \in {GetFecQamBer(f.args.snr, f.args.nbits, f.args.txVector.channelWidth,
                                   f.rate.phyRate, f.fec.m, f.fec.dFree, f.fec.adFree,
                                   f.fec.adFreePlusOne)} :
                ThreadFinish(t, r)

\* the caller of thread t takes the result; the activation record is gone
ThreadReturn(t) ==
    /\ cpc[t] \in {"done", "abort"}
    /\ cpc' = [cpc EXCEPT ![t] = "idle"]
    /\ cargs' = [cargs EXCEPT ![t] = NoArgs]
    /\ frames' = [frames EXCEPT ![Frame(t)] = NoFrame]
    /\ owner' = [owner EXCEPT ![Frame(t)] = 0]
    /\ UNCHANGED <<call, probe, object>>

NextConcurrent ==
    \E t \in Threads :
        \/ ThreadCall(t)
        \/ ThreadReturnUnmodeled(t)
        \/ ThreadSelectPhyRate(t)
        \/ ThreadSelectFec(t)
        \/ ThreadCallGetFecBpskBer(t)
        \/ ThreadCallGetFecQamBer(t)
        \/ ThreadReturn(t)

SpecConcurrent == Init /\ [][NextConcurrent]_vars

(***************************************************************************)
(* The vocabulary of the specification.                                    *)
(***************************************************************************)
\* the constellation sizes of the distance-spectrum table
SupportedConstellationSizes == {2, 4, 16, 64, 256, 1024, 4096}

\* the (constellation size, code rate) pairs of the distance-spectrum table
InTable(m) ==
    \/ m.constellationSize \in {2, 4, 16}
         /\ m.codeRate \in {"WIFI_CODE_RATE_1_2", "WIFI_CODE_RATE_3_4"}
    \/ m.constellationSize = 64
         /\ m.codeRate \in {"WIFI_CODE_RATE_2_3", "WIFI_CODE_RATE_3_4", "WIFI_CODE_RATE_5_6"}
    \/ m.constellationSize \in {256, 1024, 4096}
         /\ m.codeRate \in {"WIFI_CODE_RATE_3_4", "WIFI_CODE_RATE_5_6"}

\* the row of the table for a constellation size and a code rate:
\* <<dFree, weight at dFree>> for BPSK, <<dFree, weight at dFree, weight at
\* dFree + 1>> for QAM
TableRow(m) ==
    CASE m.constellationSize = 2 /\ m.codeRate = "WIFI_CODE_RATE_1_2" -> <<10, 11>>
      [] m.constellationSize = 2 /\ m.codeRate # "WIFI_CODE_RATE_1_2" -> <<5, 8>>
      [] m.constellationSize \in {4, 16} /\ m.codeRate = "WIFI_CODE_RATE_1_2" -> <<10, 11, 0>>
      [] m.constellationSize \in {4, 16} /\ m.codeRate # "WIFI_CODE_RATE_1_2" -> <<5, 8, 31>>
      [] m.constellationSize = 64 /\ m.codeRate = "WIFI_CODE_RATE_2_3" -> <<6, 1, 16>>
      [] m.constellationSize = 64 /\ m.codeRate = "WIFI_CODE_RATE_5_6" -> <<4, 14, 69>>
      [] m.constellationSize = 64
           /\ m.codeRate \notin {"WIFI_CODE_RATE_2_3", "WIFI_CODE_RATE_5_6"} -> <<5, 8, 31>>
      [] m.constellationSize \in {256, 1024, 4096}
           /\ m.codeRate = "WIFI_CODE_RATE_5_6" -> <<4, 14, 69>>
      [] m.constellationSize \in {256, 1024, 4096}
           /\ m.codeRate # "WIFI_CODE_RATE_5_6" -> <<5, 8, 31>>
      [] OTHER -> <<>>

\* the modulation classes outside the coded-OFDM model
LegacyClasses == {WIFI_MOD_CLASS_DSSS, WIFI_MOD_CLASS_HR_DSSS}

\* a call with valid inputs
ValidInputs == IsEligible(mode) /\ InTable(mode) /\ snr >= 0

\* the call is over: it returned a value or an assertion stopped it
Ended == pc \in {"done", "abort"}

\* what the caller sees of the call
Outcome == [pc |-> pc, retval |-> retval]

\* the coefficients the dispatch gave to the FEC function it called
ChosenCoefficients ==
    IF fec.fn = "GetFecBpskBer" THEN <<fec.dFree, fec.adFree>>
    ELSE <<fec.dFree, fec.adFree, fec.adFreePlusOne>>

(***************************************************************************)
(* The claims.                                                             *)
(***************************************************************************)
\* C1: every call with valid inputs (an eligible scheme whose constellation
\* size and code rate are in the table, SNR >= 0, any bit count) returns a
\* value, and the value lies in [0, 1].
C1_ResultInUnitInterval ==
    (Ended /\ ValidInputs) =>
        /\ pc = "done"
        /\ DLe(DZero, retval)
        /\ DLe(retval, DOne)

\* a valid call that went through the estimator and returned a value
\* strictly between 0 and 1
C1_Witness ==
    /\ pc = "done" /\ ValidInputs /\ nbits >= 1 /\ est.pdCalls = 2
    /\ DLt(DZero, retval) /\ DLt(retval, DOne)

\* C2: when the raw BER of a call is exactly 0, the call returns exactly 1,
\* whatever the coefficients of the scheme and the bit count are, and no
\* pairwise error probability (CalculatePd) is evaluated.
C2_ZeroBerShortCircuit ==
    (Ended /\ est.called /\ DIsZero(est.ber)) =>
        /\ pc = "done"
        /\ DEq(retval, DOne)
        /\ est.pdCalls = 0

\* a scheme of the table, one bit or more, and a raw BER of exactly 0
C2_Witness ==
    /\ pc = "done" /\ InTable(mode) /\ nbits >= 1
    /\ est.called /\ DIsZero(est.ber) /\ fec.adFreePlusOne > 0

\* C3, as stated: a call with nbits = 0 returns 1 for every scheme and every
\* SNR >= 0.
C3_ZeroBitsEveryScheme ==
    (Ended /\ nbits = 0 /\ snr >= 0) => (pc = "done" /\ DEq(retval, DOne))

\* C3, amended: a call with nbits = 0 returns 1 for every eligible scheme
\* whose constellation size is in the table and every SNR >= 0, including
\* the case where the clamped pmu equals 1.
C3_ZeroBitsModelledScheme ==
    (Ended /\ nbits = 0 /\ snr >= 0 /\ IsEligible(mode)
        /\ mode.constellationSize \in SupportedConstellationSizes)
    => (pc = "done" /\ DEq(retval, DOne))

\* no bits, and a channel so poor that pmu was clamped to 1
C3_Witness ==
    /\ pc = "done" /\ nbits = 0 /\ snr >= 0 /\ IsEligible(mode)
    /\ est.pdCalls >= 1 /\ DEq(est.pmu, DOne) /\ DEq(retval, DOne)

\* C4: a call on a scheme that is not eligible for the coded-OFDM model
\* returns 0, whatever the SNR, the bit count, the transmission vector and
\* the station id are, and computes no bitrate and no BER on the way.
C4_IneligibleReturnsZero ==
    (mode.modClass \in LegacyClasses) =>
        /\ pc \in {"entry", "done"}
        /\ rate = NoRate
        /\ fec = NoFec
        /\ ~est.called
        /\ (pc = "done" => DIsZero(retval))

\* an ineligible scheme at a high SNR, with no bits, in a multi-user
\* transmission at 40 MHz: the call is over
C4_Witness ==
    /\ pc = "done" /\ mode.modClass \in LegacyClasses
    /\ snr > 0 /\ nbits = 0 /\ txVector.isMu /\ txVector.channelWidth = 40
    /\ staId # SU_STA_ID

\* C5: for every eligible scheme whose constellation size is in the table,
\* the FEC function called and the coefficients (dFree, weight at dFree,
\* weight at dFree + 1) it is given are those of the table row of the
\* scheme's constellation size and code rate; the call uses that one row.
C5_TableFidelity ==
    (pc \in {"fec", "done", "abort"} /\ IsEligible(mode)
        /\ mode.constellationSize \in SupportedConstellationSizes)
    => /\ fec.fn = (IF mode.constellationSize = 2 THEN "GetFecBpskBer" ELSE "GetFecQamBer")
       /\ fec.m = mode.constellationSize
       /\ ChosenCoefficients = TableRow(mode)

\* 64-QAM at rate 5/6 went through the estimator with the row (4, 14, 69)
C5_Witness ==
    /\ pc = "done" /\ est.called
    /\ mode.constellationSize = 64 /\ mode.codeRate = "WIFI_CODE_RATE_5_6"
    /\ ChosenCoefficients = <<4, 14, 69>>

C7_UnsupportedSizeRejected ==
    (IsEligible(mode) /\ mode.constellationSize \notin SupportedConstellationSizes)
    => pc # "done"

\* C8: a call whose (constellation size, code rate) pair is not in the table
\* is an error for the caller: no row of the table is chosen for it and it
\* returns no value.
C8_UnsupportedPairNotCoerced ==
    (IsEligible(mode) /\ mode.constellationSize \in SupportedConstellationSizes
        /\ ~InTable(mode))
    => (fec = NoFec /\ pc # "done")

\* C9: a call with a negative SNR is rejected or its SNR is clamped before
\* any BER is computed: no BER function is evaluated at the negative SNR of
\* the call, and so nothing returned is computed from it.
C9_NegativeSnrRejected ==
    (snr < 0) => ~est.called

\* C10: the outcome of a call on an eligible scheme with an unsupported
\* constellation size, and the outcome of a call on an eligible scheme on a
\* channel so poor that pmu is clamped to 1 with nbits >= 1, differ from the
\* outcome of a call on an ineligible scheme (ReturnZero).
C10_UnmodeledDistinguishable ==
    (Ended /\ IsEligible(mode)
        /\ \/ mode.constellationSize \notin SupportedConstellationSizes
           \/ est.pdCalls >= 1 /\ DEq(est.pmu, DOne) /\ nbits >= 1)
    => Outcome # ReturnZero

(***************************************************************************)
(* The estimator functions against their formulas.                         *)
(***************************************************************************)
\* x and y are the same double: the same number, or both NaN (a number has
\* several records, with different exponents)
SameValue(x, y) == (x.nan /\ y.nan) \/ DEq(x, y)

\* C(n, k) by Pascal's rule
RECURSIVE ExactCoefficient(_, _)
ExactCoefficient(n, k) ==
    IF k = 0 \/ k = n THEN 1
    ELSE ExactCoefficient(n - 1, k - 1) + ExactCoefficient(n - 1, k)

\* n! as an integer, for n <= 12
RECURSIVE ExactFactorial(_)
ExactFactorial(n) == IF n = 0 THEN 1 ELSE n * ExactFactorial(n - 1)

\* C(n,k) * p^k * (1-p)^(n-k)
BinomialFormula(k, p, n) ==
    DMul(DMul(DFromNat(ExactCoefficient(n, k)), DPow(p, k)),
         DPow(DSub(DOne, p), n - k))

\* the distances CalculatePd is called with for a row of the table
EvaluatedDistances(row) ==
    IF row.fn = "GetFecBpskBer" THEN {row.dFree}
    ELSE IF row.fn = "GetFecQamBer" THEN {row.dFree, row.dFree + 1}
    ELSE {}

TableDistances == UNION {EvaluatedDistances(Dispatch(m)) : m \in Modes}

\* the sum of Binomial(i, ber, d) for i from lo to hi inclusive
RECURSIVE SumTerms(_, _, _, _)
SumTerms(ber, d, lo, hi) ==
    IF lo > hi THEN DZero
    ELSE DAdd(Binomial(lo, ber, d), SumTerms(ber, d, lo + 1, hi))

PdFormula(ber, d) ==
    IF d % 2 = 1 THEN SumTerms(ber, d, (d + 1) \div 2, d - 1)
    ELSE DAdd(SumTerms(ber, d, (d \div 2) + 1, d - 1),
              DMul(DHalf, Binomial(d \div 2, ber, d)))

\* C11: Binomial(k, p, n) equals C(n,k) * p^k * (1-p)^(n-k) for every n and
\* every 0 <= k <= n, n = 13 and above included: the coefficient does not
\* depend on n! fitting in 32 bits.
C11_BinomialExactForEveryN ==
    (probe.fn = "Binomial")
    => SameValue(probe.retval, BinomialFormula(probe.k, probe.p, probe.n))

\* C12: for every distance n of 4..11, where all the distances of the table
\* lie, and every 0 <= k <= n, the uint32_t coefficient of Binomial equals
\* C(n,k): neither factorial nor the product in the denominator wraps modulo
\* 2^32, and the division leaves no remainder.
C12_TableCoefficientExact ==
    /\ TableDistances \subseteq 4..11
    /\ (probe.fn = "Binomial" /\ probe.n \in 4..11)
       => /\ probe.coefficient = BFromNat(ExactCoefficient(probe.n, probe.k))
          /\ Factorial(probe.n) = BFromNat(ExactFactorial(probe.n))
          /\ Factorial(probe.k) = BFromNat(ExactFactorial(probe.k))
          /\ Factorial(probe.n - probe.k) = BFromNat(ExactFactorial(probe.n - probe.k))
          /\ U32Mul(Factorial(probe.k), Factorial(probe.n - probe.k))
                = BFromNat(ExactFactorial(probe.k) * ExactFactorial(probe.n - probe.k))
          /\ BRem(Factorial(probe.n),
                  U32Mul(Factorial(probe.k), Factorial(probe.n - probe.k))) = <<>>

C12_Witness ==
    /\ probe.fn = "Binomial" /\ probe.n = 11 /\ probe.k = 5
    /\ probe.coefficient = BFromNat(462)

\* C13: CalculatePd(ber, d) returns, for odd d, the sum of Binomial(i, ber, d)
\* for i from (d+1)/2 to d-1 and, for even d, the sum for i from d/2+1 to d-1
\* plus 0.5 * Binomial(d/2, ber, d); the term i = d is in neither sum, and no
\* assertion of CalculatePdOdd / CalculatePdEven fails.
C13_PdIsTheSum ==
    (probe.fn = "CalculatePd")
    => (probe.ok /\ SameValue(probe.retval, PdFormula(probe.ber, probe.d)))

C13_Witness ==
    /\ probe.fn = "CalculatePd" /\ probe.d = 10 /\ probe.ber = DInvPow2(2)
    /\ DIsPositive(probe.retval)

(***************************************************************************)
(* The value returned by the FEC functions.                                *)
(***************************************************************************)
\* weight * Pd(ber, dFree), or weight1 * Pd(ber, dFree) + weight2 * Pd(ber, dFree+1)
WeightedPd(row, ber) ==
    IF row.fn = "GetFecBpskBer"
    THEN DMul(DFromNat(row.adFree), PdFormula(ber, row.dFree))
    ELSE DAdd(DMul(DFromNat(row.adFree), PdFormula(ber, row.dFree)),
              DMul(DFromNat(row.adFreePlusOne), PdFormula(ber, row.dFree + 1)))

\* (1 - min(weighted, 1))^n
SuccessFormula(weighted, n) == DPow(DSub(DOne, DMin(weighted, DOne)), n)

\* C14: with a non-zero raw BER the binary path returns
\* (1 - min(weight * Pd(ber, dFree), 1))^nbits and the M-ary path returns
\* (1 - min(weight1 * Pd(ber, dFree) + weight2 * Pd(ber, dFree+1), 1))^nbits;
\* pmu is the weighted sum already clamped, so the base 1 - pmu of the power
\* is not negative.
C14_ClampedPowerFormula ==
    (est.called /\ ~DIsZero(est.ber))
    => /\ SameValue(retval, SuccessFormula(WeightedPd(fec, est.ber), nbits))
       /\ SameValue(est.pmu, DMin(WeightedPd(fec, est.ber), DOne))
       /\ ~DLt(DSub(DOne, est.pmu), DZero)

C14_Witness ==
    /\ pc = "done" /\ est.called /\ fec.fn = "GetFecBpskBer" /\ nbits = 2
    /\ DIsPositive(est.ber)
    /\ DLt(DZero, retval) /\ DLt(retval, DOne)

\* the rows of the table whose weight at dFree + 1 is 0
SingleTermQamRow(m) ==
    /\ IsEligible(m)
    /\ m.constellationSize \in {4, 16}
    /\ m.codeRate = "WIFI_CODE_RATE_1_2"

\* C15: for 4-QAM and 16-QAM at rate 1/2, the rows whose weight at dFree+1 is
\* 0, the two-term path returns for every raw BER in [0, 0.5] and every bit
\* count the value of the single-term formula (1 - min(11 * Pd(ber, 10), 1))^nbits
\* at the same BER.
C15_ZeroWeightCollapses ==
    /\ \A m \in Modes :
          (Dispatch(m).fn = "GetFecQamBer" /\ Dispatch(m).adFreePlusOne = 0)
          <=> SingleTermQamRow(m)
    /\ (SingleTermQamRow(mode) /\ est.called
            /\ DLe(DZero, est.ber) /\ DLe(est.ber, DHalf))
       => /\ fec.fn = "GetFecQamBer"
          /\ SameValue(retval,
                       SuccessFormula(DMul(DFromNat(11), PdFormula(est.ber, 10)), nbits))

C15_Witness ==
    /\ pc = "done" /\ SingleTermQamRow(mode) /\ mode.constellationSize = 16
    /\ est.pdCalls = 2 /\ DIsPositive(est.ber) /\ nbits = 2
    /\ DLt(DZero, retval) /\ DLt(retval, DOne)

(***************************************************************************)
(* Monotonicity.                                                           *)
(***************************************************************************)
\* C16: for a fixed eligible scheme, fixed transmission parameters and a
\* fixed bit count, the success probability returned does not decrease when
\* the SNR increases over SNR >= 0: the raw BER does not increase, from 0.5
\* down to the BER = 0 short-circuit, and the value returned does not decrease.
C16_MonotoneInSnr ==
    (probe.fn = "DoGetChunkSuccessRate" /\ IsEligible(probe.mode)
        /\ probe.nbits[1] = probe.nbits[2] /\ 0 <= probe.snr[1]
        /\ probe.snr[1] < probe.snr[2])
    => /\ DLe(probe.out[2].ber, probe.out[1].ber)
       /\ DLe(probe.out[1].retval, probe.out[2].retval)

\* the second call reaches the short-circuit, the first does not and returns less
C16_Witness ==
    /\ probe.fn = "DoGetChunkSuccessRate" /\ IsEligible(probe.mode)
    /\ probe.nbits = <<2, 2>> /\ probe.snr[1] < probe.snr[2]
    /\ probe.out[1].called /\ DIsPositive(probe.out[1].ber)
    /\ probe.out[2].called /\ DIsZero(probe.out[2].ber)
    /\ DIsPositive(probe.out[1].retval)
    /\ DLt(probe.out[1].retval, probe.out[2].retval)

\* C17: for a fixed eligible scheme, fixed transmission parameters and a
\* fixed SNR >= 0, the success probability returned does not increase when
\* the bit count increases from 0 upward.
C17_MonotoneInNbits ==
    (probe.fn = "DoGetChunkSuccessRate" /\ IsEligible(probe.mode)
        /\ probe.snr[1] = probe.snr[2] /\ 0 <= probe.snr[1]
        /\ probe.nbits[1] < probe.nbits[2])
    => DLe(probe.out[2].retval, probe.out[1].retval)

C17_Witness ==
    /\ probe.fn = "DoGetChunkSuccessRate" /\ IsEligible(probe.mode)
    /\ probe.snr[1] = probe.snr[2] /\ probe.nbits = <<1, 2>>
    /\ probe.out[1].called
    /\ DIsPositive(probe.out[2].retval)
    /\ DLt(probe.out[2].retval, probe.out[1].retval)

(***************************************************************************)
(* The worst channel on binary modulation.                                 *)
(***************************************************************************)
\* a call on binary modulation at SNR = 0 has returned
BinaryAtSnrZero ==
    pc = "done" /\ IsEligible(mode) /\ mode.constellationSize = 2 /\ snr = 0

\* the value returned is below the one of every call with the same scheme,
\* transmission parameters and bit count whose raw BER is 0
BelowZeroBerCase ==
    \A s \in SnrValues :
        LET other == DoGetChunkSuccessRate(mode, txVector, s, nbits, staId)
        IN  (other.called /\ DIsZero(other.ber)) => DLt(retval, other.retval)

\* C18 as stated: on binary modulation with SNR = 0 the raw BER is 0.5, and
\* the success probability returned is strictly less than the one returned
\* for the same scheme and bit count when the raw BER is 0, whatever the bit
\* count.
C18_StrictlyBelowForEveryNbits ==
    BinaryAtSnrZero
    => (est.called /\ DEq(est.ber, DHalf) /\ BelowZeroBerCase)

\* C18: on binary modulation with SNR = 0 the raw BER is 0.5, and for a bit
\* count of at least 1 the success probability returned is strictly less
\* than the one returned for the same scheme and bit count when the raw BER
\* is 0; for a bit count of 0 both are 1.
C18_StrictlyBelowForOneBit ==
    BinaryAtSnrZero
    => /\ est.called /\ DEq(est.ber, DHalf)
       /\ (nbits >= 1) => BelowZeroBerCase
       /\ (nbits = 0) => DEq(retval, DOne)

C18_Witness ==
    /\ BinaryAtSnrZero /\ nbits = 1 /\ DEq(est.ber, DHalf) /\ DIsZero(retval)
    /\ \E s \in SnrValues :
          /\ DIsZero(DoGetChunkSuccessRate(mode, txVector, s, nbits, staId).ber)
          /\ DEq(DoGetChunkSuccessRate(mode, txVector, s, nbits, staId).retval, DOne)

(***************************************************************************)
(* Statelessness.                                                          *)
(***************************************************************************)
\* how a call ends and the value it returns are the same
SameOutcome(x, y) == x.pc = y.pc /\ SameValue(x.retval, y.retval)

\* C19: the result of a call depends only on its inputs: whatever calls were
\* made before it, a call ends as DoGetChunkSuccessRate, as a function of the
\* arguments of this call alone, says; and no call stores anything in the
\* model object.
C19_ResultDependsOnInputsOnly ==
    /\ object = NothingStored
    /\ Ended => SameOutcome(Outcome,
                            DoGetChunkSuccessRate(mode, txVector, snr, nbits, staId))

C19_Witness ==
    /\ pc = "done" /\ est.pdCalls = 1 /\ nbits = 2 /\ txVector.channelWidth = 40
    /\ rate.call = "GetPhyRate(channelWidth)"
    /\ object = NothingStored
    /\ DLt(DZero, retval) /\ DLt(retval, DOne)
    /\ SameValue(retval, DoGetChunkSuccessRate(mode, txVector, snr, nbits, staId).retval)

(***************************************************************************)
(* Concurrency.                                                            *)
(***************************************************************************)
\* what the caller of thread t sees
ThreadOutcome(t) == [pc |-> cpc[t], retval |-> frames[Frame(t)].retval]

\* the call with the arguments of thread t, run alone
Alone(t) ==
    DoGetChunkSuccessRate(cargs[t].mode, cargs[t].txVector, cargs[t].snr,
                          cargs[t].nbits, cargs[t].staId)

\* C20: with several calls of DoGetChunkSuccessRate running concurrently on
\* the same model object without synchronization, under every interleaving
\* of their steps each call returns the value it returns when run alone; the
\* activation record a call reads was last written by that call, and nothing
\* is stored in the model object.
C20_InterleavingInvisible ==
    /\ object = NothingStored
    /\ \A t \in Threads :
          /\ (cpc[t] # "idle") => owner[Frame(t)] = t
          /\ (cpc[t] \in {"done", "abort"}) => SameOutcome(ThreadOutcome(t), Alone(t))

\* thread 1 has returned a value in (0, 1) while thread 2, called with other
\* arguments, is at its FEC function
C20_Witness ==
    /\ cpc[1] = "done" /\ cpc[2] = "fec" /\ cargs[1] # cargs[2]
    /\ frames[Frame(1)].est.called
    /\ DLt(DZero, ThreadOutcome(1).retval) /\ DLt(ThreadOutcome(1).retval, DOne)
    /\ frames[Frame(2)].fec.fn = "GetFecQamBer"
    /\ owner = [f \in Threads |-> f]

(***************************************************************************)
(* The BER formula of a call and the ratio it is given.                    *)
(***************************************************************************)
\* 0.5 * erfc(sqrt(EbNo))
BinaryBerFormula(EbNo) == DMul(DHalf, ErfcSqrt(EbNo))

\* (1 - (1 - (1 - 1/sqrt(M)) * erfc(sqrt(1.5 * log2(M) * EbNo / (M - 1))))^2) / log2(M)
MaryBerFormula(EbNo, M) ==
    DDivSmooth(
        DSub(DOne,
             DPow(DSub(DOne, DMul(DSub(DOne, DDivSmooth(DOne, Sqrt(M))),
                                  ErfcSqrt(QamSqrtArg(EbNo, M)))),
                  2)),
        Log2(M))

\* SNR * channelWidth * 1e6 / bitrate, the bitrate being the one chosen in
\* the bitrate step of the call
EffectiveRatio == EbNoOf(snr, txVector.channelWidth, rate.phyRate)

\* C21: a call that computes a raw BER uses the binary formula exactly when
\* the constellation size is 2 and otherwise the M-ary formula with M the
\* constellation size of the scheme; both are given
\* EbNo = SNR * channelWidth * 1e6 / bitrate, with the bitrate chosen in the
\* bitrate step.
C21_BerFormulaBySize ==
    est.called
    => /\ (fec.fn = "GetFecBpskBer") <=> (mode.constellationSize = 2)
       /\ (fec.fn = "GetFecQamBer") <=> (mode.constellationSize # 2)
       /\ (fec.fn = "GetFecQamBer") => fec.m = mode.constellationSize
       /\ SameValue(est.ber,
                    IF mode.constellationSize = 2 THEN BinaryBerFormula(EffectiveRatio)
                    ELSE MaryBerFormula(EffectiveRatio, mode.constellationSize))

\* a 64-QAM call on a header at 40 MHz with a BER strictly between 0 and 1/2
C21_Witness ==
    /\ pc = "done" /\ est.called /\ mode.constellationSize = 64
    /\ fec.fn = "GetFecQamBer" /\ fec.m = 64
    /\ rate.call = "GetPhyRate(channelWidth)" /\ txVector.channelWidth = 40
    /\ DIsPositive(est.ber) /\ DLt(est.ber, DHalf)

(***************************************************************************)
(* Termination.                                                            *)
(***************************************************************************)
\* a function has been entered
LoopRunning == probe.fn \in {"Factorial", "CalculatePd.loop"}

\* Factorial(k) returns after exactly k iterations, with the value of Factorial
FactorialCounted ==
    (probe.fn = "Factorial" /\ probe.done)
    => (probe.iterations = probe.arg /\ probe.fact = Factorial(probe.arg))

\* CalculatePd returns the value of CalculatePd after at most bound evaluations
PdCounted(bound) ==
    (probe.fn = "CalculatePd.loop" /\ probe.done)
    => /\ probe.evaluations <= bound
       /\ SameValue(probe.pd, CalculatePd(probe.ber, probe.d).pd)

\* the steps the function running has still to take, at most
Remaining ==
    IF probe.fn = "Factorial"
    THEN IF probe.done THEN 0 ELSE probe.k + 1
    ELSE IF probe.fn = "CalculatePd.loop"
    THEN IF probe.done THEN 0
         ELSE IF probe.at = "half" THEN 1
         ELSE Max(probe.dend - probe.i, 0) + 2
    ELSE 0

\* every step of a running function leaves it fewer steps to take: it ends
Terminating == (LoopRunning /\ LoopRunning') => (Remaining' < Remaining)

\* C22 as stated: Factorial(k) ends after exactly k iterations and
\* CalculatePd(ber, d) ends after at most d evaluations of Binomial for every
\* d >= 0, d = 0 and d = 1 included; the distances of a call of
\* DoGetChunkSuccessRate are among them, so every call terminates.
C22_EndsWithinDEvaluations ==
    /\ [](TableDistances \subseteq 0..MaxDistance)
    /\ []FactorialCounted
    /\ []PdCounted(probe.d)
    /\ [][Terminating]_vars

\* C22: Factorial(k) ends after exactly k iterations; CalculatePd(ber, d)
\* ends after at most d evaluations of Binomial for every d >= 1 (none for
\* d = 1) and after one evaluation, the half-weight term Binomial(0, ber, 0),
\* for d = 0; the distances of a call of DoGetChunkSuccessRate are among
\* them, so every call terminates.
C22_EndsWithinBound ==
    /\ [](TableDistances \subseteq 0..MaxDistance)
    /\ []FactorialCounted
    /\ []PdCounted(Max(probe.d, 1))
    /\ [](probe.fn = "CalculatePd.loop" /\ probe.done /\ probe.d = 1
            => probe.evaluations = 0)
    /\ [][Terminating]_vars

\* CalculatePd(ber, 0) has returned after the one evaluation of its half term
C22_Witness ==
    /\ probe.fn = "CalculatePd.loop" /\ probe.done
    /\ probe.d = 0 /\ probe.evaluations = 1 /\ DEq(probe.pd, DHalf)

\* the BER formula of the scheme of the call at the ratio EbNo
BerFormula(EbNo) ==
    IF mode.constellationSize = 2 THEN BinaryBerFormula(EbNo)
    ELSE MaryBerFormula(EbNo, mode.constellationSize)

\* the header case of the bitrate step on a channel of 40 MHz or more
HeaderOnWideChannel ==
    est.called /\ rate.call = "GetPhyRate(channelWidth)" /\ txVector.channelWidth >= 40

\* C23: the signal spread given to the BER formula is the full channel width
\* of the transmission vector, also in the header case where the bitrate is
\* the one of the mode at 20 MHz: for a channel width W >= 40 MHz in that
\* case the raw BER is the formula at EbNo = SNR * W * 1e6 / rate(mode at
\* 20 MHz).
C23_SpreadIsFullWidth ==
    /\ est.called
       => SameValue(est.ber, BerFormula(EbNoOf(snr, txVector.channelWidth, rate.phyRate)))
    /\ HeaderOnWideChannel
       => /\ rate.phyRate = GetPhyRate(mode, 20)
          /\ SameValue(est.ber,
                       BerFormula(EbNoOf(snr, txVector.channelWidth, GetPhyRate(mode, 20))))

\* a header call on binary modulation at 40 MHz whose BER is not the one of
\* the formula at SNR * 20e6 / rate(mode at 20 MHz)
C23_Witness ==
    /\ pc = "done" /\ HeaderOnWideChannel /\ mode.constellationSize = 2
    /\ snr > 0 /\ DIsPositive(est.ber)
    /\ ~SameValue(est.ber, BerFormula(EbNoOf(snr, 20, GetPhyRate(mode, 20))))

(***************************************************************************)
(* The eligibility threshold.                                              *)
(***************************************************************************)
\* the eligibility test of the call has been taken
PastEligibilityTest == pc \notin {"idle", "entry"}

\* the modulation classes at or above ERP-OFDM in the order of the enumeration
ClassesFromErpOfdm == WIFI_MOD_CLASS_ERP_OFDM..WIFI_MOD_CLASS_EHT

\* C24: a scheme reaches the bitrate step exactly when its modulation class
\* is at or above ERP-OFDM in the order of the enumeration; a call on a class
\* below returns 0 without a bitrate or a BER; every class at or above the
\* threshold has schemes in the table, and a call on one of them computes a
\* BER: none of these classes is treated as unmodeled.
C24_EligibilityIsThreshold ==
    /\ \A c \in ClassesFromErpOfdm : \E m \in Modes : m.modClass = c /\ InTable(m)
    /\ PastEligibilityTest
       => /\ (rate.call # "none") <=> (mode.modClass \in ClassesFromErpOfdm)
          /\ (mode.modClass \notin ClassesFromErpOfdm)
             => (Outcome = ReturnZero /\ ~est.called /\ fec = NoFec)
    /\ (Ended /\ mode.modClass \in ClassesFromErpOfdm /\ InTable(mode)) => est.called

\* a call on the threshold class itself has computed a BER and returned a
\* value above 0
C24_Witness ==
    /\ pc = "done" /\ mode.modClass = WIFI_MOD_CLASS_ERP_OFDM
    /\ rate.call # "none" /\ est.called /\ DIsPositive(retval)

(***************************************************************************)
(* The parameters field and numRxAntennas.                                 *)
(***************************************************************************)
\* C25: the value returned does not depend on field or on numRxAntennas: two
\* calls that differ only in these return the same value (the header branch
\* is decided by the mode comparison and the multi-user / station id test).
C25_FieldAndAntennasIgnored ==
    (probe.fn = "DoGetChunkSuccessRate.field")
    => SameOutcome(probe.out[1], probe.out[2])

\* a data-field call and a preamble-field call with another number of
\* antennas, both on the payload mode of the transmission vector, have
\* returned the same value in (0, 1)
C25_Witness ==
    /\ probe.fn = "DoGetChunkSuccessRate.field"
    /\ probe.field = <<"WIFI_PPDU_FIELD_DATA", "WIFI_PPDU_FIELD_PREAMBLE">>
    /\ probe.numRxAntennas = <<1, 2>>
    /\ probe.txVector.mode = probe.mode
    /\ probe.out[1].called
    /\ DLt(DZero, probe.out[1].retval) /\ DLt(probe.out[1].retval, DOne)
    /\ SameOutcome(probe.out[1], probe.out[2])

(***************************************************************************)
(* The order of the tests of the bitrate step.                             *)
(***************************************************************************)
\* the elements of a sequence
Range(seq) == {seq[i] : i \in 1..Len(seq)}

C27_BpskAtSnrZeroFails ==
    BinaryAtSnrZero
    => /\ est.called /\ fec.fn = "GetFecBpskBer"
       /\ <<fec.dFree, fec.adFree>> \in {<<10, 11>>, <<5, 8>>}
       /\ DLe(DOne, WeightedPd(fec, est.ber))
       /\ DEq(est.pmu, DOne)
       /\ (nbits >= 1) => DIsZero(retval)

\* the row of rate 3/4 (dFree = 5, weight 8) with 2 bits
C27_Witness ==
    /\ BinaryAtSnrZero /\ fec.dFree = 5 /\ fec.adFree = 8 /\ nbits = 2
    /\ DLt(DOne, WeightedPd(fec, est.ber))
    /\ DEq(est.pmu, DOne) /\ DIsZero(retval)

(***************************************************************************)
(* CalculatePd as a probability.                                           *)
(***************************************************************************)
\* C28: for every distance d of 1..12 and every raw BER p of [0, 0.5],
\* CalculatePd(p, d) lies in [0, 1] and does not decrease when p increases,
\* the term i = d of the binomial tail being left out.
C28_PdInUnitIntervalAndMonotone ==
    (probe.fn = "CalculatePd.pair" /\ probe.d \in 1..12)
    => /\ probe.ok
       /\ DLe(DZero, probe.pd[1])
       /\ DLe(probe.pd[1], probe.pd[2])
       /\ DLe(probe.pd[2], DOne)

\* d = 12 at the bit error rates 3/8 and 1/2: strictly increasing, below 1
C28_Witness ==
    /\ probe.fn = "CalculatePd.pair" /\ probe.d = 12
    /\ DEq(probe.ber[2], DHalf)
    /\ DIsPositive(probe.pd[1])
    /\ DLt(probe.pd[1], probe.pd[2])
    /\ DLt(probe.pd[2], DOne)

(***************************************************************************)
(* The parity assertions.                                                  *)
(***************************************************************************)
\* CalculatePd(ber, d) is CalculatePdEven(ber, d) for an even d and
\* CalculatePdOdd(ber, d) for an odd d, and the assertion of that function holds
RoutedByParity(ber, d) ==
    \E r \in {CalculatePd(ber, d)} :
        /\ r.ok
        /\ r = IF d % 2 = 0 THEN CalculatePdEven(ber, d) ELSE CalculatePdOdd(ber, d)

\* C29: the parity assertions of CalculatePdOdd and CalculatePdEven fail on
\* no call path that starts at DoGetChunkSuccessRate: no call aborts, and
\* CalculatePd routes each distance the call evaluates, dFree and, on the
\* M-ary path, dFree + 1 (even for an odd dFree), to the function of its parity.
C29_ParityAssertionsHold ==
    /\ pc # "abort"
    /\ (est.pdCalls >= 1) => \A d \in EvaluatedDistances(fec) : RoutedByParity(est.ber, d)

\* an M-ary call with the odd dFree = 5 has evaluated CalculatePdEven at 6
C29_Witness ==
    /\ pc = "done" /\ est.pdCalls = 2 /\ fec.dFree = 5 /\ DIsPositive(est.ber)
    /\ CalculatePdOdd(est.ber, 5).ok /\ CalculatePdEven(est.ber, 6).ok

(***************************************************************************)
(* The arguments of the calls of Binomial.                                 *)
(***************************************************************************)
\* CalculatePdOdd or CalculatePdEven is about to call Binomial(k, ber, d)
AboutToCallBinomial(k) ==
    /\ probe.fn = "CalculatePd.loop"
    /\ \/ probe.at = "loop" /\ PdLoopTest(probe.i, probe.dend) /\ k = probe.i
       \/ probe.at = "half" /\ k = probe.d \div 2

\* C30: every call Binomial(k, p, n) that CalculatePd makes, for any d >= 0,
\* has k <= n: the unsigned n - k does not wrap, and Factorial is applied to
\* the difference itself.
C30_BinomialCalledWithKAtMostN ==
    \A k \in 0..(MaxDistance + 2) :
        AboutToCallBinomial(k)
        => /\ k <= probe.d
           /\ (probe.d - k) \in 0..probe.d

\* CalculatePdEven(ber, 12) has added the terms 7..11 and calls Binomial(6, ber, 12)
C30_Witness ==
    /\ AboutToCallBinomial(6)
    /\ probe.d = 12 /\ probe.at = "half" /\ probe.evaluations = 5

====
